---- MODULE Spec2Model ----
(***************************************************************************)
(* Bracket state machine of the Dynamic Tournament Generator (src/app.py). *)
(* The Streamlit script is re-run from top to bottom on every interaction; *)
(* exactly one button is pressed per run.  Each action below is one run of *)
(* the script with one button pressed, acting on st.session_state.         *)
(***************************************************************************)
EXTENDS Integers, Sequences, FiniteSets, TLC

\* ------------------------------------------------------------------ bounds
MaxPlayers == 4     \* largest entrant list typed into the text area
MaxSteps   == 3     \* largest number of button presses in one session
MaxLines   == 2     \* largest number of pasted lines
MaxGoals   == 1     \* largest sum of the two scores of one match
MaxPasteEntrants == 2  \* largest pool whose fixtures precede pasted rows (SpecPaste)

\* ------------------------------------------------------------- vocabulary
Names == <<"Ann", "Bob", "Cy", "Dee", "Eve", "Fay", "Gus", "Hal">>

Digits == <<"0", "1", "2", "3", "4", "5", "6", "7", "8", "9">>

\* the score pairs entered for one match: non-negative integers
ScorePairs == {sp \in (0..MaxGoals) \X (0..MaxGoals) : sp[1] + sp[2] <= MaxGoals}

\* the entrant lists the text area can hold: distinct names, in typing order
players_of(k) == SubSeq(Names, 1, k)

VARIABLES
    round,            \* st.session_state.round
    matches,          \* st.session_state.matches: sequence of <<p1, p2>>
    winners,          \* st.session_state.winners
    history,          \* st.session_state.history: sequence of <<round, results>>
    initial_players,  \* st.session_state.initial_players
    byes,             \* st.session_state.byes
    round_generated,  \* st.session_state.round_generated
    last,             \* the button of the last run and the messages it displayed
    steps             \* number of button presses so far

vars == <<round, matches, winners, history, initial_players, byes,
          round_generated, last, steps>>

\* ---------------------------------------------------------------- utilities
RECURSIVE BitAnd(_, _)
BitAnd(a, b) ==
    IF a = 0 \/ b = 0 THEN 0
    ELSE (a % 2) * (b % 2) + 2 * BitAnd(a \div 2, b \div 2)

\* the mask taken one above instead of one below
is_power_of_two_MaskAbove(n) == n > 0 /\ BitAnd(n, n + 1) = 0

is_power_of_two(n) == n > 0 /\ BitAnd(n, n - 1) = 0

RECURSIVE Pow2(_)
Pow2(e) == IF e = 0 THEN 1 ELSE 2 * Pow2(e - 1)

\* math.ceil(math.log2(n)) for n >= 1: the least e with 2^e >= n
RECURSIVE CeilLog2From(_, _)
CeilLog2From(n, e) == IF Pow2(e) >= n THEN e ELSE CeilLog2From(n, e + 1)

\* the power of two strictly above n
next_power_of_two_Above(n) == IF n <= 1 THEN 1 ELSE Pow2(CeilLog2From(n + 1, 0))

next_power_of_two(n) == IF n <= 1 THEN 1 ELSE Pow2(CeilLog2From(n, 0))

\* random.shuffle(pool): every reordering of the pool is a possible outcome
Shuffles(pool) ==
    {[i \in 1..Len(pool) |-> pool[f[i]]] : f \in Permutations(1..Len(pool))}

\* the pairing started at index 1 instead of 0
PairUp_FromSecond(pool) ==
    [i \in 1..((Len(pool) - 1) \div 2) |-> <<pool[2 * i], pool[2 * i + 1]>>]

\* for i in range(0, len(pool) - 1, 2): matches.append((pool[i], pool[i + 1]))
PairUp(pool) == [i \in 1..(Len(pool) \div 2) |-> <<pool[2 * i - 1], pool[2 * i]>>]

\* create_round after the shuffle: pool is the shuffled copy.  The result
\* carries the returned matches and bye_players, the names appended to
\* st.session_state.winners on the way, and the messages displayed.
create_round(pool, round_number, initial) ==
    IF round_number = 1 /\ initial
    THEN LET target      == next_power_of_two(Len(pool))
             byes_needed == target - Len(pool)
             bye_players == IF byes_needed > 0 THEN SubSeq(pool, 1, byes_needed)
                            ELSE <<>>
             rest        == IF byes_needed > 0
                            THEN SubSeq(pool, byes_needed + 1, Len(pool))
                            ELSE pool
         IN  [matches     |-> PairUp(rest),
              bye_players |-> bye_players,
              appended    |-> bye_players,
              msgs        |-> IF bye_players = <<>> THEN {} ELSE {"bye"}]
    ELSE IF ~is_power_of_two(Len(pool))
         THEN [matches |-> <<>>, bye_players |-> <<>>, appended |-> <<>>,
               msgs |-> {"pow2_error"}]
         ELSE [matches |-> PairUp(pool), bye_players |-> <<>>,
               appended |-> <<>>, msgs |-> {}]

\* ------------------------------------------------------------------- Init
Init ==
    /\ round = 1
    /\ matches = <<>>
    /\ winners = <<>>
    /\ history = <<>>
    /\ initial_players = <<>>
    /\ byes = <<>>
    /\ round_generated = FALSE
    /\ last = [op |-> "init", msgs |-> {}]
    /\ steps = 0

\* one more run of the script with a button pressed
Press == steps < MaxSteps /\ steps' = steps + 1

\* ------------------------------------------------ Generate Round Fixtures
\* round == 1 and winners non-empty: the winners are paired, unchecked
GenerateFromWinnersRound1 ==
    /\ round = 1
    /\ winners # <<>>
    /\ \E pool \in Shuffles(winners) :
          LET r == create_round(pool, round, FALSE) IN
          /\ matches' = r.matches
          /\ byes' = r.bye_players
          /\ last' = [op |-> "generate", msgs |-> r.msgs]
    /\ round_generated' = TRUE
    /\ winners' = <<>>
    /\ UNCHANGED <<round, history, initial_players>>

\* round == 1, no winners, no entrants: a warning only
GenerateNoEntrants ==
    /\ round = 1
    /\ winners = <<>>
    /\ last' = [op |-> "generate", msgs |-> {"warn_no_entrants"}]
    /\ UNCHANGED <<round, matches, winners, history, initial_players, byes,
                   round_generated>>

\* round == 1, no winners, entrants present: the initial round
GenerateInitial(source_players) ==
    /\ round = 1
    /\ winners = <<>>
    /\ source_players # <<>>
    /\ initial_players' = source_players
    /\ \E pool \in Shuffles(source_players) :
          LET r == create_round(pool, 1, TRUE) IN
          /\ matches' = r.matches
          /\ byes' = r.bye_players
          /\ winners' = <<>> \o r.appended
          /\ last' = [op |-> "generate_initial", msgs |-> r.msgs]
    /\ round_generated' = TRUE
    /\ UNCHANGED <<round, history>>

\* round > 1
GenerateLater ==
    /\ round # 1
    /\ IF winners = <<>>
       THEN /\ last' = [op |-> "generate", msgs |-> {"warn_no_winners"}]
            /\ UNCHANGED <<matches, byes, winners, round_generated>>
       ELSE IF ~is_power_of_two(Len(winners))
       THEN /\ last' = [op |-> "generate", msgs |-> {"count_error"}]
            /\ UNCHANGED <<matches, byes, winners, round_generated>>
       ELSE /\ \E pool \in Shuffles(winners) :
                  LET r == create_round(pool, round, FALSE) IN
                  /\ matches' = r.matches
                  /\ byes' = r.bye_players
                  /\ last' = [op |-> "generate", msgs |-> r.msgs]
            /\ round_generated' = TRUE
            /\ winners' = <<>>
    /\ UNCHANGED <<round, history, initial_players>>

Generate ==
    /\ Press
    /\ \/ GenerateFromWinnersRound1
       \/ GenerateNoEntrants
       \/ \E k \in 1..MaxPlayers : GenerateInitial(players_of(k))
       \/ GenerateLater

\* --------------------------------- Submit All Results and Redraw Next Round
\* the number_input widgets of the rendered fixtures: one <<s1, s2>> per match
ScoreInputs == [1..Len(matches) -> ScorePairs]

\* scores.append((p1, p2, score1, score2)) for every rendered match
ScoredMatches(sc) ==
    [i \in 1..Len(matches) |-> <<matches[i][1], matches[i][2], sc[i][1], sc[i][2]>>]

\* the result loop: a tied entry is skipped, any other entry yields
\* (p1, p2, winner) with winner = p1 if s1 > s2 else p2
RECURSIVE RoundResults(_)
RoundResults(scored) ==
    IF scored = <<>> THEN <<>>
    ELSE LET e == Head(scored) IN
         (IF e[3] = e[4] THEN <<>>
          ELSE << <<e[1], e[2], IF e[3] > e[4] THEN e[1] ELSE e[2]>> >>)
         \o RoundResults(Tail(scored))

AnyTies(scored) == \E i \in 1..Len(scored) : scored[i][3] = scored[i][4]

\* the first player appended instead of the winner
WinnersOf_FirstPlayer(results) == [i \in 1..Len(results) |-> results[i][1]]

WinnersOf(results) == [i \in 1..Len(results) |-> results[i][3]]

\* the shared tail, redrawing the next round without counting it
Advance_RoundKept(ran, w, results) ==
    /\ IF results # <<>>
       THEN history' = Append(history, <<round, results>>)
       ELSE history' = history
    /\ IF Len(w) = 1
       THEN /\ winners' = w
            /\ last' = [ran EXCEPT !.msgs = @ \cup {"champion"}]
            /\ UNCHANGED <<round, matches, byes, round_generated>>
       ELSE IF is_power_of_two(Len(w))
       THEN /\ round' = round
            /\ \E pool \in Shuffles(w) :
                  LET r == create_round(pool, round + 1, FALSE) IN
                  /\ matches' = r.matches
                  /\ byes' = r.bye_players
                  /\ last' = [ran EXCEPT
                                !.msgs = @ \cup r.msgs \cup {"auto_generated"}]
            /\ winners' = <<>>
            /\ round_generated' = TRUE
       ELSE /\ winners' = w
            /\ last' = ran
            /\ UNCHANGED <<round, matches, byes, round_generated>>
    /\ UNCHANGED initial_players

\* the tail shared by the two result handlers: history append, then champion
\* or next round.  w is st.session_state.winners after the result loop, ran
\* the button pressed with the messages (and pasted lines) of the loop.
Advance(ran, w, results) ==
    /\ IF results # <<>>
       THEN history' = Append(history, <<round, results>>)
       ELSE history' = history
    /\ IF Len(w) = 1
       THEN /\ winners' = w
            /\ last' = [ran EXCEPT !.msgs = @ \cup {"champion"}]
            /\ UNCHANGED <<round, matches, byes, round_generated>>
       ELSE IF is_power_of_two(Len(w))
       THEN /\ round' = round + 1
            /\ \E pool \in Shuffles(w) :
                  LET r == create_round(pool, round + 1, FALSE) IN
                  /\ matches' = r.matches
                  /\ byes' = r.bye_players
                  /\ last' = [ran EXCEPT
                                !.msgs = @ \cup r.msgs \cup {"auto_generated"}]
            /\ winners' = <<>>
            /\ round_generated' = TRUE
       ELSE /\ winners' = w
            /\ last' = ran
            /\ UNCHANGED <<round, matches, byes, round_generated>>
    /\ UNCHANGED initial_players

\* a submission with at least one tie: st.stop() after the loop
SubmitTied(sc) ==
    /\ matches # <<>>
    /\ AnyTies(ScoredMatches(sc))
    /\ LET results == RoundResults(ScoredMatches(sc)) IN
       /\ winners' = winners \o WinnersOf(results)
       /\ last' = [op |-> "submit",
                   msgs |-> {"tie"} \cup (IF results = <<>> THEN {} ELSE {"result"})]
    /\ UNCHANGED <<round, matches, history, initial_players, byes, round_generated>>

\* a submission without ties
SubmitClean(sc) ==
    /\ matches # <<>>
    /\ ~AnyTies(ScoredMatches(sc))
    /\ \E results \in {RoundResults(ScoredMatches(sc))} :
          \E w \in {winners \o WinnersOf(results)} :
             Advance([op |-> "submit", msgs |-> {"result"}], w, results)

Submit == Press /\ \E sc \in ScoreInputs : SubmitTied(sc) \/ SubmitClean(sc)

\* ------------------------------------------------- Process Pasted Results
\* A pasted line is the sequence of its whitespace-separated tokens; a name is
\* one token.
\* str.split(sep) yields exactly two parts when sep occurs exactly once
SepAt(s, sep) == {i \in 1..Len(s) : s[i] = sep}

SplitsInTwo(s, sep) == Cardinality(SepAt(s, sep)) = 1

Before(s, sep) == SubSeq(s, 1, (CHOOSE i \in SepAt(s, sep) : TRUE) - 1)

After(s, sep) == SubSeq(s, (CHOOSE i \in SepAt(s, sep) : TRUE) + 1, Len(s))

IsInt(part) == Len(part) = 1 /\ \E d \in 1..Len(Digits) : Digits[d] = part[1]

IntOf(part) == (CHOOSE d \in 1..Len(Digits) : Digits[d] = part[1]) - 1

StripName(part) == IF part = <<>> THEN "" ELSE part[1]

\* the try block up to int(s2): ok is FALSE where the code raises
ParseLine(line) ==
    IF ~SplitsInTwo(line, "=") THEN [ok |-> FALSE]
    ELSE LET match  == Before(line, "=")
             result == After(line, "=")
         IN  IF ~SplitsInTwo(match, "vs") THEN [ok |-> FALSE]
             ELSE IF ~SplitsInTwo(result, "-") THEN [ok |-> FALSE]
             ELSE IF ~(IsInt(Before(result, "-")) /\ IsInt(After(result, "-")))
                  THEN [ok |-> FALSE]
             ELSE [ok |-> TRUE,
                   p1 |-> StripName(Before(match, "vs")),
                   p2 |-> StripName(After(match, "vs")),
                   s1 |-> IntOf(Before(result, "-")),
                   s2 |-> IntOf(After(result, "-"))]

\* the loop over the pasted lines, leaving the loop at the first line that raises
RECURSIVE PastedResults_StopAtError(_)
PastedResults_StopAtError(lines) ==
    IF lines = <<>> THEN <<>>
    ELSE LET p == CHOOSE q \in {ParseLine(Head(lines))} : TRUE IN
         IF ~p.ok THEN <<>>
         ELSE (IF p.s1 = p.s2 THEN <<>>
               ELSE << <<p.p1, p.p2, IF p.s1 > p.s2 THEN p.p1 ELSE p.p2>> >>)
              \o PastedResults_StopAtError(Tail(lines))

\* the loop over the pasted lines: a line that raises or ties is skipped, any
\* other line yields (p1, p2, winner), in input order
RECURSIVE PastedResults(_)
PastedResults(lines) ==
    IF lines = <<>> THEN <<>>
    ELSE \* one parse per line
         LET p == CHOOSE q \in {ParseLine(Head(lines))} : TRUE IN
         (IF ~p.ok THEN <<>>
          ELSE IF p.s1 = p.s2 THEN <<>>
          ELSE << <<p.p1, p.p2, IF p.s1 > p.s2 THEN p.p1 ELSE p.p2>> >>)
         \o PastedResults(Tail(lines))

\* the kinds of message the loop displays
RECURSIVE PastedMsgs(_)
PastedMsgs(lines) ==
    IF lines = <<>> THEN {}
    ELSE LET p == CHOOSE q \in {ParseLine(Head(lines))} : TRUE IN
         (IF ~p.ok THEN {"parse_error"}
          ELSE IF p.s1 = p.s2 THEN {"tie"}
          ELSE {"result"})
         \cup PastedMsgs(Tail(lines))

\* the rows a user pastes: results for the first displayed fixture or for the
\* first two names, and rows that do not have the expected shape
Row(p1, p2, s1, s2) == <<p1, "vs", p2, "=", Digits[s1 + 1], "-", Digits[s2 + 1]>>

BadRows == { <<"Ann", "vs", "Bob">>,
             <<"Ann", "vs", "Bob", "=", "x", "-", "1">> }

PastePairs ==
    (IF matches = <<>> THEN {} ELSE {matches[1]}) \cup {<<Names[1], Names[2]>>}

PasteRows ==
    {Row(m[1], m[2], sp[1], sp[2]) : m \in PastePairs, sp \in ScorePairs}
    \cup BadRows

RECURSIVE SeqsUpTo(_, _)
SeqsUpTo(S, n) ==
    IF n = 0 THEN {<<>>}
    ELSE LET shorter == SeqsUpTo(S, n - 1) IN
         shorter \cup {Append(s, x) : s \in shorter, x \in S}

PasteInputs == SeqsUpTo(PasteRows, MaxLines)

Paste(lines) ==
    \E results \in {PastedResults(lines)} :
       \E w \in {winners \o WinnersOf(results)} :
          Advance([op |-> "paste", msgs |-> PastedMsgs(lines), lines |-> lines],
                  w, results)

ProcessPasted == Press /\ \E lines \in PasteInputs : Paste(lines)

Next == Generate \/ Submit \/ ProcessPasted

Spec == Init /\ [][Next]_vars

\* sessions that use the fixtures form only: no pasted rows
NextPlay == Generate \/ Submit

SpecPlay == Init /\ [][NextPlay]_vars

\* sessions that paste their first results, with or without fixtures of a
\* small pool generated before
GenerateSmall ==
    /\ steps = 0
    /\ Press
    /\ \E k \in 1..MaxPasteEntrants : GenerateInitial(players_of(k))

PasteFirst == last.op \in {"init", "generate_initial"} /\ ProcessPasted

NextPaste == GenerateSmall \/ PasteFirst

SpecPaste == Init /\ [][NextPaste]_vars

\* sessions that generate round 1 once and then submit tie-free scores of all
\* displayed fixtures until a champion is announced
GenerateOnce ==
    /\ steps = 0
    /\ Press
    /\ \E k \in 1..MaxPlayers : GenerateInitial(players_of(k))

SubmitAll ==
    /\ "champion" \notin last.msgs
    /\ Press
    /\ \E sc \in ScoreInputs : SubmitClean(sc)

NextRun == GenerateOnce \/ SubmitAll

\* the user keeps submitting while fixtures are displayed
SpecRun == Init /\ [][NextRun]_vars /\ WF_vars(SubmitAll)

\* ---------------------------------------------------- Bracket visualisation
\* The chart is drawn from st.session_state on every run with a non-empty
\* history.  A node identifier is the sequence of its tokens: a player node is
\* identified by the player's name, a match node by f"R{rnd}-M{idx}".
RECURSIVE str(_)
str(n) == IF n < 10 THEN <<Digits[n + 1]>>
          ELSE str(n \div 10) \o <<Digits[(n % 10) + 1]>>

match_id(rnd, idx) == <<"R">> \o str(rnd) \o <<"-M">> \o str(idx)

player_id(p) == <<p>>

\* the (entry, index) positions enumerated by the two loops over history
MatchEntries ==
    UNION {{<<h, idx>> : idx \in 1..Len(history[h][2])} : h \in 1..Len(history)}

\* the three dot.edge calls of one result, reversed for the winner
MatchEdges_WinnerIntoMatch(rnd, idx, res) ==
    { <<player_id(res[1]), match_id(rnd, idx)>>,
      <<player_id(res[2]), match_id(rnd, idx)>>,
      <<player_id(res[3]), match_id(rnd, idx)>> }

\* the three dot.edge calls of one result
MatchEdges(rnd, idx, res) ==
    { <<player_id(res[1]), match_id(rnd, idx)>>,
      <<player_id(res[2]), match_id(rnd, idx)>>,
      <<match_id(rnd, idx), player_id(res[3])>> }

GraphEdges ==
    UNION {MatchEdges(history[e[1]][1], e[2], history[e[1]][2][e[2]]) :
             e \in MatchEntries}

\* declared nodes, and the nodes Graphviz creates for edge endpoints
GraphNodes ==
    {player_id(initial_players[i]) : i \in 1..Len(initial_players)}
    \cup {match_id(history[e[1]][1], e[2]) : e \in MatchEntries}
    \cup UNION {{d[1], d[2]} : d \in GraphEdges}

\* =================================================================== claims
\* the players of a sequence of matches, in fixture order
Flat(ms) == [i \in 1..(2 * Len(ms)) |-> ms[(i + 1) \div 2][2 - (i % 2)]]

Range(s) == {s[i] : i \in 1..Len(s)}

Count(x, s) == Cardinality({i \in 1..Len(s) : s[i] = x})

\* s and t hold the same names the same number of times
SameMembers(s, t) == \A x \in Range(s) \cup Range(t) : Count(x, s) = Count(x, t)

\* the step is one run of the Submit handler / of a Submit that found a tie
SubmitStep == last'.op = "submit"

TiedSubmitStep == SubmitStep /\ "tie" \in last'.msgs

CleanSubmitStep == SubmitStep /\ "tie" \notin last'.msgs

\* the results the step appended to history
Recorded == history'[Len(history')][2]

\* the winner named by each of those results
RecordedWinners == [i \in 1..Len(Recorded) |-> Recorded[i][3]]

\* the step appended one entry, for the current round, with one result per
\* pending match, in fixture order, won by one of its two players
RecordsAllPending ==
    /\ Len(history') = Len(history) + 1
    /\ SubSeq(history', 1, Len(history)) = history
    /\ history'[Len(history')][1] = round
    /\ Len(Recorded) = Len(matches)
    /\ \A i \in 1..Len(matches) :
          /\ <<Recorded[i][1], Recorded[i][2]>> = matches[i]
          /\ Recorded[i][3] \in {matches[i][1], matches[i][2]}

\* C1: a submission in which some pair has equal scores commits nothing:
\* winners, history, round and pendingMatches are the same after it as before.
C1_TieAtomicity ==
    [][TiedSubmitStep =>
         /\ winners' = winners
         /\ history' = history
         /\ round' = round
         /\ matches' = matches]_vars

\* C2: a tie-free resubmission right after a submission rejected for a tie
\* completes the round: a champion is declared, or round becomes r+1 and the
\* new pendingMatches pair exactly the round's winners.
C2_RecoveryAfterTie ==
    [][(last.op = "submit" /\ "tie" \in last.msgs /\ CleanSubmitStep) =>
         \/ /\ "champion" \in last'.msgs
            /\ Len(winners') = 1
            /\ round' = round
         \/ /\ round' = round + 1
            /\ RecordsAllPending
            /\ SameMembers(Flat(matches'), byes \o RecordedWinners)]_vars

\* C3: once a submission has declared a champion, the next operation, whichever
\* it is, leaves round, pendingMatches, winners and history unchanged.
C3_ChampionTerminal ==
    [][(last.op = "submit" /\ "champion" \in last.msgs) =>
         /\ round' = round
         /\ matches' = matches
         /\ winners' = winners
         /\ history' = history]_vars

\* C4: round changes only by +1, and only in a step that records a result for
\* every pending match and leaves more than one winner.
C4_RoundIncrementOnlyOnFullRound ==
    [][round' # round =>
         /\ round' = round + 1
         /\ RecordsAllPending
         /\ Len(Flat(matches')) > 1]_vars

\* the smallest power of two that is at least k
SmallestPow2AtLeast(k) ==
    CHOOSE p \in {Pow2(e) : e \in 0..k} :
        p >= k /\ \A q \in {Pow2(e) : e \in 0..k} : q >= k => p <= q

\* the state is the one left by the round-1 generation from the entrant list
InitialRoundGenerated == last.op = "generate_initial"

Entrants == Len(initial_players)

\* the names across the generated matches and byes
Placed == Flat(matches) \o byes

\* C5 as stated: for every initial pool of k >= 1 entrants create_round returns
\* nextPowerOfTwo(k) - k byes and every entrant appears exactly once across the
\* returned matches and byes.
C5_ByesAndCoverage_AnyPool ==
    (InitialRoundGenerated /\ Entrants >= 1) =>
        /\ Len(byes) = SmallestPow2AtLeast(Entrants) - Entrants
        /\ \A e \in Range(initial_players) : Count(e, Placed) = 1

\* C5 amended: the bye count holds for every k >= 1; every entrant appears
\* exactly once across matches and byes, and nobody else does, for k >= 2.
C5_ByesAndCoverage ==
    (InitialRoundGenerated /\ Entrants >= 1) =>
        /\ Len(byes) = SmallestPow2AtLeast(Entrants) - Entrants
        /\ Entrants >= 2 =>
              /\ \A e \in Range(initial_players) : Count(e, Placed) = 1
              /\ Len(Placed) = Entrants

C5_Witness ==
    /\ InitialRoundGenerated
    /\ Entrants = 3
    /\ Len(byes) = 1
    /\ Len(matches) = 1

\* C6 as stated: for every initial pool of k >= 1 entrants create_round returns
\* nextPowerOfTwo(k)/2 matches (the half rounded down for k = 1).
C6_MatchCount_HalfTarget ==
    (InitialRoundGenerated /\ Entrants >= 1) =>
        Len(matches) = SmallestPow2AtLeast(Entrants) \div 2

\* C6 amended: create_round returns k - nextPowerOfTwo(k)/2 matches for
\* k >= 2 (matches and byes together number nextPowerOfTwo(k)/2; the matches
\* alone do when k is a power of two) and no match for k = 1.
C6_MatchCount ==
    (InitialRoundGenerated /\ Entrants >= 1) =>
        /\ Entrants = 1 => Len(matches) = 0
        /\ Entrants >= 2 =>
              /\ Len(matches) = Entrants - SmallestPow2AtLeast(Entrants) \div 2
              /\ 2 * (Len(matches) + Len(byes)) = SmallestPow2AtLeast(Entrants)
              /\ is_power_of_two(Entrants) =>
                    2 * Len(matches) = SmallestPow2AtLeast(Entrants)

C6_Witness ==
    /\ InitialRoundGenerated
    /\ Entrants = 3
    /\ Len(matches) = 1
    /\ 2 * Len(matches) # SmallestPow2AtLeast(Entrants)

\* C7: round 1 generated from exactly one entrant has no matches and that
\* entrant is at once the champion, recorded as the sole winner.
C7_SingleEntrantChampion ==
    (InitialRoundGenerated /\ Entrants = 1) =>
        /\ matches = <<>>
        /\ winners = initial_players
        /\ "champion" \in last.msgs

\* C8: pairing a non-initial pool whose size is not a power of two fails with
\* an error, produces no matches and leaves winners as it was.
C8_NonPowerOfTwoRejected ==
    [][("pow2_error" \in last'.msgs) =>
         /\ matches' = <<>>
         /\ winners' = winners]_vars

\* the state is the one left by a run that generated a round (by the Generate
\* button, or automatically after results) and paired the whole pool: some
\* matches, no byes, nobody waiting in winners
PairedWholePool ==
    /\ \/ /\ last.op \in {"generate", "generate_initial"}
          /\ last.msgs \cap {"warn_no_entrants", "warn_no_winners", "count_error",
                             "pow2_error"} = {}
       \/ "auto_generated" \in last.msgs
    /\ matches # <<>>
    /\ byes = <<>>
    /\ winners = <<>>

\* the same side won every recorded match
OneSideWins ==
    \/ \A i \in 1..Len(Recorded) : Recorded[i][3] = Recorded[i][1]
    \/ \A i \in 1..Len(Recorded) : Recorded[i][3] = Recorded[i][2]

RoundTripStep == PairedWholePool /\ CleanSubmitStep /\ OneSideWins

\* C9 as stated: a round of m >= 1 matches without byes followed at once by a
\* tie-free submission won by one side throughout yields m winners and
\* advances round by exactly 1.
C9_RoundTrip_AnyM ==
    [][RoundTripStep =>
         /\ RecordsAllPending
         /\ Len(RecordedWinners) = Len(matches)
         /\ round' = round + 1]_vars

\* C9 amended: such a round trip yields m winners from the 2*m players; for
\* m >= 2 round advances by exactly 1 and the m winners are paired as the new
\* pendingMatches; for m = 1 the one winner is the champion and round stays.
C9_RoundTrip ==
    [][RoundTripStep =>
         /\ RecordsAllPending
         /\ Len(RecordedWinners) = Len(matches)
         /\ Len(matches) >= 2 =>
               /\ round' = round + 1
               /\ winners' = <<>>
               /\ SameMembers(Flat(matches'), RecordedWinners)
         /\ Len(matches) = 1 =>
               /\ round' = round
               /\ winners' = RecordedWinners
               /\ "champion" \in last'.msgs]_vars

C9_Witness ==
    /\ steps = 2
    /\ last.op = "submit"
    /\ round = 2
    /\ Len(initial_players) = 4
    /\ Len(history) = 1
    /\ Len(history[1][2]) = 2
    /\ \A i \in 1..2 : history[1][2][i][3] = history[1][2][i][1]
    /\ Len(matches) = 1

\* C10: for k >= 3 entrants, round 1 followed by one tie-free submission of all
\* its matches leaves nextPowerOfTwo(k)/2 winners (byes and match winners),
\* round 2, and round-2 pendingMatches holding exactly those players, each once.
C10_RoundOneToRoundTwo ==
    [][(InitialRoundGenerated /\ Entrants >= 3 /\ CleanSubmitStep) =>
         /\ RecordsAllPending
         /\ 2 * Len(byes \o RecordedWinners) = SmallestPow2AtLeast(Entrants)
         /\ round' = 2
         /\ winners' = <<>>
         /\ SameMembers(Flat(matches'), byes \o RecordedWinners)
         /\ \A x \in Range(Flat(matches')) : Count(x, Flat(matches')) = 1]_vars

C10_Witness ==
    /\ steps = 2
    /\ last.op = "submit"
    /\ round = 2
    /\ Len(initial_players) = 3
    /\ Len(history) = 1
    /\ Len(matches) = 1
    /\ matches[1][1] # matches[1][2]
    /\ \E i \in 1..2 : matches[1][i] = history[1][2][1][3]

\* the step is one run of a result handler (Submit or Process Pasted Results)
\* that met no tie
TieFreeResultStep == last'.op \in {"submit", "paste"} /\ "tie" \notin last'.msgs

\* C11: a tie-free submission that leaves more than one winner, not a power of
\* two in number, reports an invariant error; it never ends silently with the
\* inconsistent winners kept.
C11_InvariantErrorReported ==
    [][(TieFreeResultStep /\ Len(winners') > 1 /\ ~is_power_of_two(Len(winners'))) =>
         "invariant_error" \in last'.msgs]_vars

\* the step is one run of the Generate Round Fixtures handler
GenerateStep == last'.op \in {"generate", "generate_initial"}

\* some match is pending and no result of it has been recorded for this round
Unresolved ==
    /\ matches # <<>>
    /\ \A h \in 1..Len(history) :
          history[h][1] = round =>
             \A i \in 1..Len(history[h][2]) :
                <<history[h][2][i][1], history[h][2][i][2]>> \notin Range(matches)

\* C12: Generate Round Fixtures pressed while matches are pending and
\* unresolved is rejected: the pending matches are neither replaced nor emptied
\* and winners is neither consumed nor cleared.
C12_GenerateWhilePendingRejected ==
    [][(GenerateStep /\ Unresolved) =>
         /\ matches' = matches
         /\ winners' = winners]_vars

\* C13: the match identifiers R{round}-M{idx} generated over all history
\* entries are pairwise distinct in every reachable state (entrant names are
\* distinct and none has the form of a match identifier).
C13_MatchIdsDistinct ==
    \A e1 \in MatchEntries : \A e2 \in MatchEntries :
       e1 # e2 => match_id(history[e1[1]][1], e1[2]) # match_id(history[e2[1]][1], e2[2])

Successors(n) == {d[2] : d \in {c \in GraphEdges : c[1] = n}}

\* the nodes reached from the frontier by one edge or more
RECURSIVE ReachedFrom(_, _)
ReachedFrom(frontier, seen) ==
    LET new == UNION {Successors(n) : n \in frontier} \ seen IN
    IF new = {} THEN seen ELSE ReachedFrom(new, seen \cup new)

Acyclic == \A n \in GraphNodes : n \notin ReachedFrom({n}, {})

IsMatchNode(n) == \E e \in MatchEntries : n = match_id(history[e[1]][1], e[2])

\* C14 as claimed: the graph drawn from any non-empty history is acyclic.
C14_Acyclic == history # <<>> => Acyclic

\* C14: the graph drawn from a non-empty history is not acyclic: every edge
\* joins a player node and a match node, and each recorded result closes the
\* cycle winner -> match node -> winner, the winner being one of the two players.
C14_WinnerCycles ==
    history # <<>> =>
       /\ \A d \in GraphEdges : IsMatchNode(d[1]) # IsMatchNode(d[2])
       /\ \A e \in MatchEntries :
             LET res == history[e[1]][2][e[2]]
                 m == match_id(history[e[1]][1], e[2]) IN
             /\ res[3] \in {res[1], res[2]}
             /\ <<player_id(res[3]), m>> \in GraphEdges
             /\ <<m, player_id(res[3])>> \in GraphEdges
       /\ ~Acyclic

\* two rounds have been recorded and drawn
C14_Witness == Len(history) >= 2 /\ Cardinality(GraphEdges) >= 6

\* C15: initial_players is written once; once it holds the entrants of a
\* generated round 1 no later operation changes it.
C15_InitialPlayersWrittenOnce ==
    [][initial_players # <<>> => initial_players' = initial_players]_vars

\* the entry holds one triple (A, B, winner), winner one of A and B, for each
\* of the matches ms, in fixture order
OneTriplePerMatch(entry, ms) ==
    /\ Len(entry[2]) = Len(ms)
    /\ \A i \in 1..Len(ms) :
          /\ <<entry[2][i][1], entry[2][i][2]>> = ms[i]
          /\ entry[2][i][3] \in {ms[i][1], ms[i][2]}

\* C16: history is append-only with one entry per completed round: every
\* operation leaves the previous history as a prefix, the round numbers of
\* its entries are strictly increasing, and an appended entry (r, results)
\* holds exactly one triple for each match pending in round r.
C16_HistoryAppendOnly ==
    [][/\ Len(history') >= Len(history)
       /\ SubSeq(history', 1, Len(history)) = history
       /\ \A i \in 1..Len(history') : \A j \in 1..Len(history') :
             i < j => history'[i][1] < history'[j][1]
       /\ Len(history') <= Len(history) + 1
       /\ Len(history') = Len(history) + 1 =>
             /\ history'[Len(history')][1] = round
             /\ OneTriplePerMatch(history'[Len(history')], matches)]_vars

\* a line of the shape "<p1> vs <p2> = <s1>-<s2>", read by position
Separators == {"vs", "=", "-"}

DigitSet == {Digits[d] : d \in 1..Len(Digits)}

WellFormed(line) ==
    /\ Len(line) = 7
    /\ line[2] = "vs" /\ line[4] = "=" /\ line[6] = "-"
    /\ line[1] \notin Separators /\ line[3] \notin Separators
    /\ line[5] \in DigitSet /\ line[7] \in DigitSet

ScoreAt(line, pos) == (CHOOSE d \in 1..Len(Digits) : Digits[d] = line[pos]) - 1

TieLine(line) == WellFormed(line) /\ ScoreAt(line, 5) = ScoreAt(line, 7)

DecisiveLine(line) == WellFormed(line) /\ ScoreAt(line, 5) # ScoreAt(line, 7)

\* one triple per decisive line, in input order, the higher score winning
RECURSIVE ExpectedTriples(_)
ExpectedTriples(lines) ==
    IF lines = <<>> THEN <<>>
    ELSE (IF DecisiveLine(Head(lines))
          THEN << <<Head(lines)[1], Head(lines)[3],
                    IF ScoreAt(Head(lines), 5) > ScoreAt(Head(lines), 7)
                    THEN Head(lines)[1] ELSE Head(lines)[3]>> >>
          ELSE <<>>)
         \o ExpectedTriples(Tail(lines))

ThirdOf(triples) == [i \in 1..Len(triples) |-> triples[i][3]]

\* C17: processing pasted lines isolates errors per line: every well-formed
\* line with unequal scores contributes one triple and one winner (the higher
\* score), in input order, whatever the other lines are; a malformed line and
\* a tied line contribute nothing; a tied line is reported as a tie and a
\* malformed line as a parse error.
C17_PasteIsolatesLines ==
    [][last'.op = "paste" =>
         LET lines == last'.lines
             exp == ExpectedTriples(lines)
             w == winners \o ThirdOf(exp) IN
         /\ history' = IF exp = <<>> THEN history ELSE Append(history, <<round, exp>>)
         /\ \/ winners' = w
            \/ winners' = <<>> /\ SameMembers(Flat(matches'), w)
         /\ ("tie" \in last'.msgs) = (\E i \in 1..Len(lines) : TieLine(lines[i]))
         /\ ("parse_error" \in last'.msgs) =
               (\E i \in 1..Len(lines) : ~WellFormed(lines[i]))
         /\ ("result" \in last'.msgs) = (exp # <<>>)]_vars

\* a malformed line was pasted before a decisive one, and the decisive one counted
C17_Witness ==
    /\ last.op = "paste"
    /\ Len(last.lines) = 2
    /\ ~WellFormed(last.lines[1])
    /\ DecisiveLine(last.lines[2])
    /\ history # <<>>
    /\ "parse_error" \in last.msgs

Log2(p) == CHOOSE e \in 0..p : Pow2(e) = p

\* the rounds a pool of the size of initial_players takes
RoundsNeeded == Log2(SmallestPow2AtLeast(Entrants))

ChampionDeclared == "champion" \in last.msgs

\* the champion is declared after exactly RoundsNeeded submissions, in round
\* RoundsNeeded; before that, round r is pending after r - 1 submissions
ChampionOnTime ==
    Entrants >= 2 =>
       IF ChampionDeclared
       THEN steps = 1 + RoundsNeeded /\ round = RoundsNeeded
       ELSE steps <= RoundsNeeded /\ round = steps /\ matches # <<>>

\* the step redraws the fixtures of the next round
NextRoundStep == CleanSubmitStep /\ round' = round + 1

C19_PendingNamesDistinct ==
    Entrants >= 1 =>
       /\ \A x \in Range(Flat(matches)) : Count(x, Flat(matches)) = 1
       /\ \A i \in 1..Len(matches) : matches[i][1] # matches[i][2]
       /\ Range(Flat(matches)) \cap Range(winners) = {}

\* the names recorded as the loser of a match, one per recorded result
Losers ==
    [e \in MatchEntries |->
        LET res == history[e[1]][2][e[2]] IN
        IF res[3] = res[1] THEN res[2] ELSE res[1]]

TimesLost(x) == Cardinality({e \in MatchEntries : Losers[e] = x})

\* C20: whenever a champion is declared in a tournament generated from two
\* entrants or more, the champion is an initial entrant never recorded as a
\* loser, and every other initial entrant is recorded as the loser of exactly
\* one match (so no holder of a bye is champion while a match is unresolved).
C20_SingleElimination ==
    (ChampionDeclared /\ Entrants >= 2) =>
       /\ winners[1] \in Range(initial_players)
       /\ TimesLost(winners[1]) = 0
       /\ \A x \in Range(initial_players) \ {winners[1]} : TimesLost(x) = 1
====
